---- MODULE Spec2Model ----
(***************************************************************************)
(* confd template resource: the stage-and-commit cycle of                  *)
(* pkg/template/resource.go (TemplateResource.process and the methods it   *)
(* calls) over an abstract filesystem and an abstract backend.             *)
(*                                                                         *)
(* Strings that the code inspects (keys, prefixes, the mode string, file   *)
(* contents) are sequences of one-character strings.  File modes are the   *)
(* integer value of the permission bits (0644 octal = 420).                *)
(***************************************************************************)
EXTENDS Integers, Sequences, FiniteSets, TLC

VARIABLES
    Mode,           \* TemplateResource.Mode: the configured mode string ("" = inherit)
    Prefix,         \* TemplateResource.Prefix, already normalised by NewTemplateResource
    CheckCmd,       \* TemplateResource.CheckCmd ("" = none)
    ReloadCmd,      \* TemplateResource.ReloadCmd ("" = none)
    noop,           \* TemplateResource.noop
    syncOnly,       \* TemplateResource.syncOnly
    keepStageFile,  \* TemplateResource.keepStageFile
    FileMode,       \* TemplateResource.FileMode, resolved by setFileMode
    Store,          \* TemplateResource.Store (memkv): normalised key -> value
    backend,        \* the mapping the backend's GetValues currently answers with
    dest,           \* the file at t.Dest
    staged,         \* the file at t.StageFile.Name() of the current cycle
    pc,             \* position of process() ("idle" between cycles)
    ret,            \* what the last process() returned ("none" before the first)
    ok,             \* sync's local `ok`, the answer of IsConfigChanged
    werr,           \* sync's local `err` of afero.WriteFile on the fallback path
    pre,            \* history: dest as it was when the cycle started
    cand,           \* history: the bytes the template rendered in this cycle
    trace,          \* history: the steps that ran in this cycle, in order
    had,            \* history: the Store as the setVars that has just run found it
    quiet,          \* history: neither dest nor the backend changed since process() returned
    again,          \* history: this cycle directly follows one that returned nil and left
                    \* dest holding its candidate, and nothing changed in between
    tr,             \* NewTemplateResource: its arguments and, once it has run, what
                    \* it returned
    two             \* two resources on one filesystem: two.fs, the files by name,
                    \* and two.rs, each resource's pc, ret, FileMode, Store and the
                    \* name of its StageFile

vars == << Mode, Prefix, CheckCmd, ReloadCmd, noop, syncOnly, keepStageFile,
           FileMode, Store, backend, dest, staged, pc, ret, ok, werr,
           pre, cand, trace, had, quiet, again, tr, two >>

cfgVars == << Mode, Prefix, CheckCmd, ReloadCmd, noop, syncOnly, keepStageFile, tr, two >>

-----------------------------------------------------------------------------
(* Bounds of the model.                                                    *)

\* the largest number of pairs in one answer of the backend
MaxKeys == 2

-----------------------------------------------------------------------------
(* Strings.                                                                *)

HasPrefix(s, p) == /\ Len(p) <= Len(s)
                   /\ SubSeq(s, 1, Len(p)) = p

\* strings.TrimPrefix
TrimPrefix(s, p) == IF HasPrefix(s, p) THEN SubSeq(s, Len(p) + 1, Len(s)) ELSE s

\* the elements of a slash-separated path, empty elements included
RECURSIVE Split(_)
Split(s) ==
    IF s = << >> THEN << << >> >>
    ELSE LET rest == Split(Tail(s)) IN
         IF Head(s) = "/" THEN << << >> >> \o rest
         ELSE << << Head(s) >> \o Head(rest) >> \o Tail(rest)

\* path.Clean on the elements of a rooted path: "" and "." are dropped and
\* ".." removes the element before it (nothing at the root)
RECURSIVE CleanElems(_, _)
CleanElems(elems, acc) ==
    IF elems = << >> THEN acc
    ELSE LET e == Head(elems) IN
         IF e = << >> \/ e = << "." >> THEN CleanElems(Tail(elems), acc)
         ELSE IF e = << ".", "." >>
              THEN CleanElems(Tail(elems),
                              IF acc = << >> THEN acc ELSE SubSeq(acc, 1, Len(acc) - 1))
              ELSE CleanElems(Tail(elems), Append(acc, e))

RECURSIVE JoinElems(_)
JoinElems(elems) ==
    IF elems = << >> THEN << >>
    ELSE << "/" >> \o Head(elems) \o JoinElems(Tail(elems))

\* path.Join("/", s): the non-empty arguments joined by "/" and cleaned
JoinRoot(s) ==
    LET elems == CleanElems(Split(s), << >>) IN
    IF elems = << >> THEN << "/" >> ELSE JoinElems(elems)

\* the value of one digit, 99 for a character that is no digit
DigitVal(c) ==
    CASE c = "0" -> 0 [] c = "1" -> 1 [] c = "2" -> 2 [] c = "3" -> 3
      [] c = "4" -> 4 [] c = "5" -> 5 [] c = "6" -> 6 [] c = "7" -> 7
      [] c = "8" -> 8 [] c = "9" -> 9
      [] c \in {"a", "A"} -> 10 [] c \in {"b", "B"} -> 11 [] c \in {"c", "C"} -> 12
      [] c \in {"d", "D"} -> 13 [] c \in {"e", "E"} -> 14 [] c \in {"f", "F"} -> 15
      [] OTHER -> 99

\* the largest integer of the model (2^31 - 1)
MaxInt == 1073741823 * 2 + 1

\* the value of a digit string in a base, -1 once it passes MaxInt
RECURSIVE DigitsValue(_, _, _)
DigitsValue(ds, base, acc) ==
    IF ds = << >> THEN acc
    ELSE IF acc > (MaxInt - DigitVal(Head(ds))) \div base THEN -1
    ELSE DigitsValue(Tail(ds), base, acc * base + DigitVal(Head(ds)))

\* strconv.ParseUint(s, 0, 32): the base comes from the string's prefix
\* ("0x" 16, "0b" 2, "0o" or a leading "0" 8, otherwise 10); a string with
\* no digits, a digit outside the base or a value out of range is an error.
\* (Underscore separators are not modelled; the range ends at 2^31 - 1, the
\* model's integers, where ParseUint's ends at 2^32 - 1.)
ParseUint(s) ==
    LET second == IF Len(s) >= 2 THEN s[2] ELSE ""
        base   == IF Len(s) >= 2 /\ s[1] = "0"
                  THEN (IF second \in {"x", "X"} THEN 16
                        ELSE IF second \in {"b", "B"} THEN 2 ELSE 8)
                  ELSE 10
        digits == IF Len(s) >= 2 /\ s[1] = "0"
                  THEN (IF second \in {"x", "X", "b", "B", "o", "O"}
                        THEN SubSeq(s, 3, Len(s)) ELSE Tail(s))
                  ELSE s
        valid  == /\ digits # << >>
                  /\ \A i \in 1..Len(digits) : DigitVal(digits[i]) < base
        val    == IF valid THEN DigitsValue(digits, base, 0) ELSE -1
    IN  IF val >= 0
        THEN [err |-> FALSE, val |-> val]
        ELSE [err |-> TRUE, val |-> 0]

-----------------------------------------------------------------------------
(* Files of the abstract filesystem.                                       *)

NoFile == [exists |-> FALSE, content |-> << >>, mode |-> 0, uid |-> 0, gid |-> 0]

File(c, m, u, g) == [exists |-> TRUE, content |-> c, mode |-> m, uid |-> u, gid |-> g]

\* util.IsFileExist
IsFileExist(f) == f.exists

\* the mode setFileMode falls back to for a destination that does not exist
DefaultFileMode == 420

\* the mode afero.TempFile creates its file with (0600)
TempFileMode == 384

\* the effective ids of the process (os.Geteuid, os.Getegid): the owner of
\* every file the process creates
ProcessUid == 0
ProcessGid == 0

\* TemplateResource.Uid and .Gid as NewTemplateResource resolved them from
\* the descriptor
Uid == 1000
Gid == 1000

\* the content digest FileStat computes (md5, taken as collision-free)
Md5(c) == c

\* util.FileStat
FileStat(f) == [Uid |-> f.uid, Gid |-> f.gid, Mode |-> f.mode, Md5 |-> Md5(f.content)]

\* mutant of IsConfigChanged: owner, group and mode are compared as well
IsConfigChangedStat(src, dst) ==
    IF ~dst.exists THEN TRUE
    ELSE [exists |-> TRUE, content |-> src.content, mode |-> src.mode,
          uid |-> src.uid, gid |-> src.gid] # dst

\* util.IsConfigChanged when it can read both files: a destination that does
\* not exist always differs, otherwise only the content digests are compared
IsConfigChanged(src, dst) ==
    IF ~IsFileExist(dst) THEN TRUE
    ELSE FileStat(src).Md5 # FileStat(dst).Md5

-----------------------------------------------------------------------------
(* The Staging Store (memkv.Store) and setVars.                            *)

EmptyStore == << >>

\* memkv Store.Set
StoreSet(st, k, v) == [x \in (DOMAIN st) \cup {k} |-> IF x = k THEN v ELSE st[x]]

\* the store key of a backend key: path.Join("/", strings.TrimPrefix(k, t.Prefix))
NormKey(k, prefix) == JoinRoot(TrimPrefix(k, prefix))

\* mutant of SetAll: the pairs are stored under the backend's own keys
RECURSIVE SetAllRaw(_, _, _, _)
SetAllRaw(st, res, ord, prefix) ==
    IF ord = << >> THEN st
    ELSE SetAllRaw(StoreSet(st, Head(ord), res[Head(ord)]), res, Tail(ord), prefix)

\* the loop of setVars over the backend's answer, taken in the order `ord`
\* (Go ranges over a map in an unspecified order)
RECURSIVE SetAll(_, _, _, _)
SetAll(st, res, ord, prefix) ==
    IF ord = << >> THEN st
    ELSE SetAll(StoreSet(st, NormKey(Head(ord), prefix), res[Head(ord)]),
                res, Tail(ord), prefix)

\* every order in which the keys of S can be visited
Orders(S) == { o \in [1..Cardinality(S) -> S] : \A i, j \in DOMAIN o : i # j => o[i] # o[j] }

\* mutant of Purge: the entries stay
PurgeNothing(st) == st

\* Store.Purge
Purge(st) == EmptyStore

\* the Store setVars leaves after a successful GetValues
Refreshed(st, res, ord, prefix) == SetAll(Purge(st), res, ord, prefix)

-----------------------------------------------------------------------------
(* The template and the inputs of the model.                               *)

\* the source template: the literal text `f=` followed by {{getv "/f"}}
TemplateText == << "f", "=" >>
TemplateKey  == << "/", "f" >>

\* mutant of Render: the value of the key is left out
RenderLiteral(st) == TemplateText

\* tmpl.Execute against the store: getv fails on a key that is not there
RenderFails(st) == TemplateKey \notin DOMAIN st
Render(st)      == TemplateText \o st[TemplateKey]

Values == { << "x" >>, << "y" >> }

\* every mapping the backend can answer with over the keys K
Mappings(K) ==
    UNION { [D -> Values] : D \in { D \in SUBSET K : Cardinality(D) <= MaxKeys } }

\* keys of the backend in the pipeline model: the template's key under the
\* prefix /a, plain and with a doubled slash
PipelineKeys == { << "/", "a", "/", "f" >>, << "/", "a", "/", "/", "f" >> }

\* prefixes and backend keys of the store model
StorePrefixes == { << "/" >>, << "/", "a" >>, << "/", "a", "/" >> }
StoreKeys ==
    { << "/", "a", "/", "f" >>,            \* /a/f
      << "/", "a", "/", "/", "f" >>,       \* /a//f
      << "/", "f" >>,                      \* /f
      << "/", "a", "/", "a", "/", "f" >>,  \* /a/a/f
      << "/", "a", "b" >> }                \* /ab

ModeStrings == { << >>, << "0", "6", "6", "0" >>, << "r", "w" >> }

\* the destination before the first cycle and after a change from outside
OutsideDests ==
    { NoFile, File(<< "o", "l", "d" >>, 416, ProcessUid, ProcessGid) }

\* the flags and commands of the resources of the pipeline model:
\* << noop, syncOnly, keepStageFile, CheckCmd, ReloadCmd >>
Policies ==
    { << FALSE, FALSE, FALSE, c, r >> : c \in { "", "check {{.src}}" }, r \in { "", "reload" } }
    \cup { << FALSE, TRUE,  FALSE, "check {{.src}}", "reload" >>,
           << TRUE,  FALSE, FALSE, "check {{.src}}", "reload" >>,
           << FALSE, FALSE, TRUE,  "check {{.src}}", "reload" >> }

-----------------------------------------------------------------------------
(* NewTemplateResource.                                                    *)

\* strconv.Atoi: an optional sign and decimal digits
Atoi(s) ==
    LET signed == s # << >> /\ s[1] \in { "-", "+" }
        digits == IF signed THEN Tail(s) ELSE s
        valid  == /\ digits # << >>
                  /\ \A i \in 1..Len(digits) : DigitVal(digits[i]) < 10
        val    == IF valid THEN DigitsValue(digits, 10, 0) ELSE -1
    IN  IF val >= 0
        THEN [err |-> FALSE, val |-> IF signed /\ s[1] = "-" THEN 0 - val ELSE val]
        ELSE [err |-> TRUE, val |-> 0]

\* user.Lookup and user.LookupGroup on a system that knows the user and the
\* group "app" and no other name; the ids come back as decimal strings
Lookup(name) ==
    IF name = "app" THEN [err |-> FALSE, Uid |-> << "1", "0", "0", "0" >>]
    ELSE [err |-> TRUE, Uid |-> << >>]
LookupGroup(name) ==
    IF name = "app" THEN [err |-> FALSE, Gid |-> << "1", "0", "0" >>]
    ELSE [err |-> TRUE, Gid |-> << >>]

\* path.Clean on the elements of a relative path: "" and "." are dropped and
\* ".." removes the element before it, or stays if there is none to remove
RECURSIVE CleanRelElems(_, _)
CleanRelElems(elems, acc) ==
    IF elems = << >> THEN acc
    ELSE LET e == Head(elems) IN
         IF e = << >> \/ e = << "." >> THEN CleanRelElems(Tail(elems), acc)
         ELSE IF e = << ".", "." >> /\ acc # << >> /\ acc[Len(acc)] # << ".", "." >>
              THEN CleanRelElems(Tail(elems), SubSeq(acc, 1, Len(acc) - 1))
              ELSE CleanRelElems(Tail(elems), Append(acc, e))

\* filepath.Clean
Clean(s) ==
    IF s = << >> THEN << "." >>
    ELSE IF Head(s) = "/" THEN JoinRoot(s)
    ELSE LET elems == CleanRelElems(Split(s), << >>) IN
         IF elems = << >> THEN << "." >> ELSE Tail(JoinElems(elems))

\* filepath.Join(dir, name): the non-empty arguments joined by "/" and
\* cleaned, "" if both are empty
FilepathJoin(dir, name) ==
    IF dir = << >> /\ name = << >> THEN << >>
    ELSE IF dir = << >> THEN Clean(name)
    ELSE IF name = << >> THEN Clean(dir)
    ELSE Clean(dir \o << "/" >> \o name)

\* what NewTemplateResource returns when it fails with e: no resource
NoResource(e) ==
    [nil |-> TRUE, err |-> e, Src |-> << >>, Prefix |-> << >>, Uid |-> -1, Gid |-> -1,
     Store |-> EmptyStore]

\* mutant of NewTemplateResource: the prefix is taken as it comes and the
\* empty src is let through
NewTemplateResourceLax(a) ==
    IF ~a.StoreClient THEN NoResource("A valid StoreClient is required.")
    ELSE IF ~a.decodeOk THEN NoResource("Cannot process template resource")
    ELSE
    LET prefix == IF a.configPrefix # << >> THEN a.configPrefix ELSE a.Prefix
        owner  == Lookup(a.Owner)
        group  == LookupGroup(a.Group)
    IN  IF a.Uid = -1 /\ a.Owner # "" /\ owner.err
        THEN NoResource("Cannot find owner's UID")
        ELSE IF a.Uid = -1 /\ a.Owner # "" /\ Atoi(owner.Uid).err
        THEN NoResource("Cannot convert string to int")
        ELSE IF a.Gid = -1 /\ a.Group # "" /\ group.err
        THEN NoResource("Cannot find group's GID")
        ELSE IF a.Gid = -1 /\ a.Group # "" /\ Atoi(group.Gid).err
        THEN NoResource("Cannot convert string to int")
        ELSE [nil |-> FALSE, err |-> "nil",
              Src |-> FilepathJoin(a.TemplateDir, a.Src),
              Prefix |-> prefix,
              Uid |-> IF a.Uid # -1 THEN a.Uid
                      ELSE IF a.Owner # "" THEN Atoi(owner.Uid).val ELSE ProcessUid,
              Gid |-> IF a.Gid # -1 THEN a.Gid
                      ELSE IF a.Group # "" THEN Atoi(group.Gid).val ELSE ProcessGid,
              Store |-> EmptyStore]

\* NewTemplateResource(fs, path, config).  a holds config.StoreClient (is
\* there one), whether the descriptor at path decodes, the descriptor's src,
\* prefix, uid, gid, owner and group (uid and gid are -1 when it does not set
\* them), and config.Prefix and config.TemplateDir.
NewTemplateResource(a) ==
    IF ~a.StoreClient THEN NoResource("A valid StoreClient is required.")
    ELSE IF ~a.decodeOk THEN NoResource("Cannot process template resource")
    ELSE
    LET set    == IF a.configPrefix # << >> THEN a.configPrefix ELSE a.Prefix
        prefix == IF HasPrefix(set, << "/" >>) THEN set ELSE << "/" >> \o set
        owner  == Lookup(a.Owner)
        group  == LookupGroup(a.Group)
    IN  IF a.Src = << >> THEN NoResource("empty src template")
        ELSE IF a.Uid = -1 /\ a.Owner # "" /\ owner.err
        THEN NoResource("Cannot find owner's UID")
        ELSE IF a.Uid = -1 /\ a.Owner # "" /\ Atoi(owner.Uid).err
        THEN NoResource("Cannot convert string to int")
        ELSE IF a.Gid = -1 /\ a.Group # "" /\ group.err
        THEN NoResource("Cannot find group's GID")
        ELSE IF a.Gid = -1 /\ a.Group # "" /\ Atoi(group.Gid).err
        THEN NoResource("Cannot convert string to int")
        ELSE [nil |-> FALSE, err |-> "nil",
              Src |-> FilepathJoin(a.TemplateDir, a.Src),
              Prefix |-> prefix,
              Uid |-> IF a.Uid # -1 THEN a.Uid
                      ELSE IF a.Owner # "" THEN Atoi(owner.Uid).val ELSE ProcessUid,
              Gid |-> IF a.Gid # -1 THEN a.Gid
                      ELSE IF a.Group # "" THEN Atoi(group.Gid).val ELSE ProcessGid,
              Store |-> EmptyStore]

\* the arguments NewTemplateResource is tried on
NewArgs ==
    [ StoreClient  : BOOLEAN,
      decodeOk     : BOOLEAN,
      Src          : { << >>, << "t" >>, << ".", ".", "/", "t" >> },
      Prefix       : { << >>, << "a" >>, << "/", "a" >> },
      configPrefix : { << >>, << "b" >>, << "/", "b" >> },
      TemplateDir  : { << >>, << "/", "d" >> },
      Uid          : { -1, 0, 33 },
      Owner        : { "", "app", "ghost" },
      Gid          : { -1, 33 },
      Group        : { "", "app", "ghost" } ]

\* the arguments the resource with prefix p and the ids Uid and Gid was made from
ArgsOf(p) ==
    [ StoreClient |-> TRUE, decodeOk |-> TRUE, Src |-> << "t" >>,
      Prefix |-> << >>, configPrefix |-> IF p = << "/" >> THEN << >> ELSE p,
      TemplateDir |-> << >>, Uid |-> Uid, Owner |-> "", Gid |-> Gid, Group |-> "" ]

\* tr once NewTemplateResource has returned
Made(a) == [args |-> a, done |-> TRUE, res |-> NewTemplateResource(a)]

-----------------------------------------------------------------------------
(* Two resources on one filesystem and one backend.                        *)

Resources == { 1, 2 }

\* the resources' prefixes and destinations (two files of one directory,
\* the name of one beginning with the name of the other)
PrefixOf(i) == IF i = 1 THEN << "/", "a" >> ELSE << "/", "b" >>
DestOf(i)   == IF i = 1 THEN << "a" >> ELSE << "a", "1" >>

\* the keys of the shared backend: the template's key under either prefix
TwoKeys == { << "/", "a", "/", "f" >>, << "/", "b", "/", "f" >> }

\* the random part afero.TempFile puts after the pattern (digit strings of
\* one fixed length: nine digits in afero, one here)
Suffixes == { << "1" >>, << "2" >> }

\* mutant of TempName: one name for every resource of the directory
TempNameShared(i, d) == << ".", "t", "m", "p" >> \o d

\* the name afero.TempFile(fs, filepath.Dir(t.Dest), "."+filepath.Base(t.Dest))
\* tries: the pattern followed by a random part
TempName(i, d) == << "." >> \o DestOf(i) \o d

\* the file of a name, NoFile if there is none
FileAt(f, name) == IF name \in DOMAIN f THEN f[name] ELSE NoFile

WithFile(f, name, file) ==
    [n \in (DOMAIN f) \cup { name } |-> IF n = name THEN file ELSE f[n]]

WithoutFile(f, name) == [n \in (DOMAIN f) \ { name } |-> f[n]]

\* what the backend answers to resource i, which asks for the keys under
\* its prefix
GetValues(i) ==
    [k \in { k \in DOMAIN backend : HasPrefix(k, PrefixOf(i)) } |-> backend[k]]

NoResources == [fs |-> << >>, rs |-> << >>]

\* resource i as NewTemplateResource returns it
FreshResource ==
    [pc |-> "idle", ret |-> "none", FileMode |-> 0, Store |-> EmptyStore, stage |-> << >>]

TypeOK ==
    /\ Mode \in ModeStrings
    /\ noop \in BOOLEAN /\ syncOnly \in BOOLEAN /\ keepStageFile \in BOOLEAN
    /\ pc \in { "idle", "setVars", "CreateStageFile", "sync", "check", "rename",
                "writeOpen", "writeData", "reload" }
    /\ dest.exists \in BOOLEAN /\ staged.exists \in BOOLEAN
    /\ ok \in BOOLEAN /\ werr \in BOOLEAN /\ quiet \in BOOLEAN

\* a resource as NewTemplateResource returns it (an empty Store, no mode
\* resolved yet), before its first cycle
Fresh ==
    /\ FileMode = 0
    /\ Store = EmptyStore
    /\ staged = NoFile
    /\ pc = "idle"
    /\ ret = "none"
    /\ ok = FALSE
    /\ werr = FALSE
    /\ pre = dest
    /\ cand = << >>
    /\ trace = << >>
    /\ had = EmptyStore
    /\ quiet = FALSE
    /\ again = FALSE

\* the pipeline model: one resource with prefix /a
Init ==
    /\ Mode \in ModeStrings
    /\ Prefix = << "/", "a" >>
    /\ \E pol \in Policies :
         /\ noop = pol[1]
         /\ syncOnly = pol[2]
         /\ keepStageFile = pol[3]
         /\ CheckCmd = pol[4]
         /\ ReloadCmd = pol[5]
    /\ backend \in Mappings(PipelineKeys)
    /\ dest \in OutsideDests
    /\ tr = Made(ArgsOf(Prefix))
    /\ two = NoResources
    /\ Fresh

\* the store model: setVars under several prefixes and backend answers
InitStore ==
    /\ Mode = << >>
    /\ Prefix \in StorePrefixes
    /\ noop = FALSE
    /\ syncOnly = FALSE
    /\ keepStageFile = FALSE
    /\ CheckCmd = ""
    /\ ReloadCmd = ""
    /\ backend \in Mappings(StoreKeys)
    /\ dest = NoFile
    /\ tr = Made(ArgsOf(Prefix))
    /\ two = NoResources
    /\ Fresh

\* the constructor model: no resource yet, and the arguments of the call of
\* NewTemplateResource that is about to be made
InitNew ==
    /\ Mode = << >>
    /\ Prefix = << >>
    /\ noop = FALSE
    /\ syncOnly = FALSE
    /\ keepStageFile = FALSE
    /\ CheckCmd = ""
    /\ ReloadCmd = ""
    /\ backend = << >>
    /\ dest = NoFile
    /\ tr \in { [args |-> a, done |-> FALSE, res |-> NoResource("none")] : a \in NewArgs }
    /\ two = NoResources
    /\ Fresh

-----------------------------------------------------------------------------
(* process() and the methods it calls.                                     *)

\* process() returns e to its caller
Return(e) ==
    /\ pc' = "idle"
    /\ ret' = e
    /\ quiet' = TRUE

\* process() goes on to step p
Goto(p) ==
    /\ pc' = p
    /\ ret' = "running"
    /\ quiet' = FALSE

\* setFileMode, the first step of process(): the mode of this cycle
SetFileMode ==
    /\ pc = "idle"
    /\ pre' = dest
    /\ cand' = << >>
    /\ staged' = NoFile
    /\ ok' = FALSE
    /\ werr' = FALSE
    /\ again' = (quiet /\ ret = "nil" /\ dest.exists /\ dest.content = cand)
    /\ had' = EmptyStore
    /\ trace' = << "setFileMode" >>
    /\ IF Mode = << >>
       THEN IF ~IsFileExist(dest)
            THEN FileMode' = DefaultFileMode /\ Goto("setVars")
            ELSE \E statOk \in BOOLEAN :
                   IF statOk
                   THEN FileMode' = dest.mode /\ Goto("setVars")
                   ELSE FileMode' = FileMode /\ Return("StatError")
       ELSE IF ParseUint(Mode).err
            THEN FileMode' = FileMode /\ Return("ParseError")
            ELSE FileMode' = ParseUint(Mode).val /\ Goto("setVars")
    /\ UNCHANGED << cfgVars, Store, backend, dest >>

\* mutant of setVars: the Store is purged before the answer is looked at
setVarsPurgeFirst(getOk, ord) ==
    /\ had' = Store
    /\ Store' = IF getOk THEN Refreshed(Store, backend, ord, Prefix) ELSE Purge(Store)

\* setVars: GetValues, and if it succeeds Purge and one Set for every pair
\* of the answer, visited in the order ord
setVars(getOk, ord) ==
    /\ had' = Store
    /\ Store' = IF getOk THEN Refreshed(Store, backend, ord, Prefix) ELSE Store

\* setVars as the second step of process()
SetVars ==
    /\ pc = "setVars"
    /\ trace' = Append(trace, "setVars")
    /\ \E getOk \in BOOLEAN, ord \in Orders(DOMAIN backend) :
         /\ setVars(getOk, ord)
         /\ IF getOk THEN Goto("CreateStageFile") ELSE Return("BackendError")
    /\ UNCHANGED << cfgVars, FileMode, backend, dest, staged, ok, werr, pre, cand, again >>

\* setVars called on its own
CallSetVars ==
    /\ pc = "idle"
    /\ trace' = << "setVars" >>
    /\ \E getOk \in BOOLEAN, ord \in Orders(DOMAIN backend) :
         /\ setVars(getOk, ord)
         /\ Return(IF getOk THEN "nil" ELSE "BackendError")
    /\ UNCHANGED << cfgVars, FileMode, backend, dest, staged, ok, werr, pre, cand, again >>

\* CreateStageFile: compile the template, render it into a new temporary
\* file of dest's directory (removed again if Execute fails), then chmod and
\* chown that file (the results of Chmod and Chown are not looked at)
CreateStageFile ==
    /\ pc = "CreateStageFile"
    /\ \E tmpl \in { "ok", "missing", "syntax" }, tempOk, ioOk, chmodOk, chownOk \in BOOLEAN :
         IF tmpl = "missing"
         THEN /\ staged' = staged /\ cand' = cand /\ trace' = Append(trace, "stage")
              /\ Return("MissingTemplate")
         ELSE IF tmpl = "syntax"
         THEN /\ staged' = staged /\ cand' = cand /\ trace' = Append(trace, "stage")
              /\ Return("TemplateSyntaxError")
         ELSE IF ~tempOk
         THEN /\ staged' = staged /\ cand' = cand /\ trace' = Append(trace, "stage")
              /\ Return("TempFileError")
         ELSE IF RenderFails(Store) \/ ~ioOk
         THEN /\ staged' = NoFile
              /\ cand' = cand
              /\ trace' = Append(trace, "stage")
              /\ Return("TemplateRenderError")
         ELSE /\ trace' = trace \o << "stage" >>
                             \o (IF chmodOk THEN << >> ELSE << "chmodFailed" >>)
                             \o (IF chownOk THEN << >> ELSE << "chownFailed" >>)
              /\ staged' = File(Render(Store),
                                IF chmodOk THEN FileMode ELSE TempFileMode,
                                IF chownOk THEN Uid ELSE ProcessUid,
                                IF chownOk THEN Gid ELSE ProcessGid)
              /\ cand' = Render(Store)
              /\ Goto("sync")
    /\ had' = EmptyStore
    /\ UNCHANGED << cfgVars, FileMode, Store, backend, dest, ok, werr, pre, again >>

\* mutant of SyncReturn: the staged file is removed at the end of sync only,
\* not on its error returns
SyncReturnNoDefer(e, st) ==
    /\ staged' = IF keepStageFile \/ e # "nil" THEN st ELSE NoFile
    /\ Return(e)

\* sync returns e: the deferred Remove of the staged file runs unless
\* keepStageFile is set; st is the staged file as the returning step leaves it
SyncReturn(e, st) ==
    /\ staged' = IF keepStageFile THEN st ELSE NoFile
    /\ Return(e)

\* where sync goes once dest holds the candidate
AfterCommit(st) ==
    IF ~syncOnly /\ ReloadCmd # ""
    THEN staged' = st /\ Goto("reload")
    ELSE SyncReturn("nil", st)

\* mutant of Decide: the noop flag is only honoured for an unchanged file
DecideIgnoreNoop(changed) ==
    IF ~changed THEN "nil"
    ELSE IF ~syncOnly /\ CheckCmd # "" THEN "check"
    ELSE "rename"

\* mutant of Decide: under noop a differing candidate is returned as "changed"
DecideReportChanged(changed) ==
    IF noop THEN (IF changed THEN "changed" ELSE "nil")
    ELSE IF ~changed THEN "nil"
    ELSE IF ~syncOnly /\ CheckCmd # "" THEN "check"
    ELSE "rename"

\* mutant of Decide: an unchanged candidate is checked and committed too
DecideUnchangedToo(changed) ==
    IF noop THEN "nil"
    ELSE IF ~syncOnly /\ CheckCmd # "" THEN "check"
    ELSE "rename"

\* what sync does with the answer of IsConfigChanged: "nil" (return nil: the
\* noop return and the in-sync return), "check" or "rename"
Decide(changed) ==
    IF noop THEN "nil"
    ELSE IF ~changed THEN "nil"
    ELSE IF ~syncOnly /\ CheckCmd # "" THEN "check"
    ELSE "rename"

\* sync up to the decision to overwrite: IsConfigChanged (an error of it is
\* logged and its answer used all the same), then Decide
SyncDiff ==
    /\ pc = "sync"
    /\ \E diffOk, answer \in BOOLEAN :
         /\ diffOk \/ IsFileExist(dest)
         /\ ok' = IF diffOk THEN IsConfigChanged(staged, dest) ELSE answer
         /\ trace' = Append(trace, IF diffOk THEN "diff" ELSE "diffError")
         /\ IF Decide(ok') \in { "check", "rename" }
            THEN staged' = staged /\ Goto(Decide(ok'))
            ELSE SyncReturn(Decide(ok'), staged)
    /\ UNCHANGED << cfgVars, FileMode, Store, backend, dest, werr, pre, cand, had, again >>

\* mutant of Check: dest is overwritten before the check command is run
CheckLate ==
    /\ pc = "check"
    /\ dest' = staged
    /\ \E pass \in BOOLEAN :
         IF pass
         THEN /\ trace' = Append(trace, "check")
              /\ staged' = staged
              /\ Goto("rename")
         ELSE /\ trace' = Append(trace, "checkFailed")
              /\ SyncReturn("Config check failed", staged)
    /\ UNCHANGED << cfgVars, FileMode, Store, backend, ok, werr, pre, cand, had, again >>

\* mutant of Check: a failed check is logged and sync goes on
CheckIgnored ==
    /\ pc = "check"
    /\ dest' = dest
    /\ \E pass \in BOOLEAN :
         /\ trace' = Append(trace, IF pass THEN "check" ELSE "checkFailed")
         /\ staged' = staged
         /\ Goto("rename")
    /\ UNCHANGED << cfgVars, FileMode, Store, backend, ok, werr, pre, cand, had, again >>

\* check: the check command on the staged file; sync returns if it fails
Check ==
    /\ pc = "check"
    /\ dest' = dest
    /\ \E pass \in BOOLEAN :
         IF pass
         THEN /\ trace' = Append(trace, "check")
              /\ staged' = staged
              /\ Goto("rename")
         ELSE /\ trace' = Append(trace, "checkFailed")
              /\ SyncReturn("Config check failed", staged)
    /\ UNCHANGED << cfgVars, FileMode, Store, backend, ok, werr, pre, cand, had, again >>

\* mutant of Renamed: dest is removed before the rename is tried
RenamedRemoveFirst(d, st, outcome) == IF outcome = "ok" THEN st ELSE NoFile

\* dest after fs.Rename(staged, t.Dest): the staged file if the rename
\* succeeds, untouched if it fails
Renamed(d, st, outcome) == IF outcome = "ok" THEN st ELSE d

\* mutant of Rename: "device or resource busy" is returned like any other error
RenameNoFallback ==
    /\ pc = "rename"
    /\ \E outcome \in { "ok", "busy", "other" } :
         /\ dest' = Renamed(dest, staged, outcome)
         /\ CASE outcome = "ok" ->
                /\ trace' = Append(trace, "rename")
                /\ AfterCommit(NoFile)
           [] outcome = "busy" ->
                /\ IsFileExist(dest)
                /\ trace' = Append(trace, "renameBusy")
                /\ SyncReturn("RenameError", staged)
           [] outcome = "other" ->
                /\ trace' = Append(trace, "renameError")
                /\ SyncReturn("RenameError", staged)
    /\ UNCHANGED << cfgVars, FileMode, Store, backend, ok, werr, pre, cand, had, again >>

\* fs.Rename(staged, t.Dest): dest becomes the staged file in one step, or
\* the rename fails: with another error than "device or resource busy",
\* which sync returns, or with that error (dest is a mount point), and sync
\* reads the staged file back with afero.ReadFile
Rename ==
    /\ pc = "rename"
    /\ \E outcome \in { "ok", "busy", "other" }, readOk \in BOOLEAN :
         /\ dest' = Renamed(dest, staged, outcome)
         /\ CASE outcome = "ok" ->
                /\ trace' = Append(trace, "rename")
                /\ AfterCommit(NoFile)
           [] outcome = "busy" ->
                /\ IsFileExist(dest)
                /\ trace' = trace \o << "renameBusy", "read" >>
                /\ IF readOk THEN staged' = staged /\ Goto("writeOpen")
                   ELSE SyncReturn("ReadError", staged)
           [] outcome = "other" ->
                /\ trace' = Append(trace, "renameError")
                /\ SyncReturn("RenameError", staged)
    /\ UNCHANGED << cfgVars, FileMode, Store, backend, ok, werr, pre, cand, had, again >>

\* t.fs.Chown(t.Dest, t.Uid, t.Gid), whose result is not looked at
Chown(f, chownOk) ==
    IF chownOk /\ IsFileExist(f) THEN [f EXCEPT !.uid = Uid, !.gid = Gid] ELSE f

\* afero.WriteFile, first half: OpenFile(t.Dest, O_WRONLY|O_CREATE|O_TRUNC,
\* t.FileMode) empties dest (and would create it with t.FileMode).  If it
\* fails WriteFile returns, dest is chowned and sync returns the error.
WriteOpen ==
    /\ pc = "writeOpen"
    /\ \E openOk, chownOk \in BOOLEAN :
         IF openOk
         THEN /\ dest' = IF IsFileExist(dest) THEN [dest EXCEPT !.content = << >>]
                         ELSE File(<< >>, FileMode, ProcessUid, ProcessGid)
              /\ trace' = Append(trace, "open")
              /\ werr' = FALSE
              /\ staged' = staged
              /\ Goto("writeData")
         ELSE /\ dest' = Chown(dest, chownOk)
              /\ trace' = trace \o << "openError", IF chownOk THEN "chown" ELSE "chownError" >>
              /\ werr' = TRUE
              /\ SyncReturn("WriteError", staged)
    /\ UNCHANGED << cfgVars, FileMode, Store, backend, ok, pre, cand, had, again >>

\* afero.WriteFile, second half: Write puts the first n bytes of the staged
\* content into dest and fails if n is short.  Then dest is chowned whether
\* WriteFile failed or not, and sync returns WriteFile's error if it has one.
WriteData ==
    /\ pc = "writeData"
    /\ \E n \in 0..Len(staged.content), chownOk \in BOOLEAN :
         /\ trace' = trace \o << "write", IF chownOk THEN "chown" ELSE "chownError" >>
         /\ dest' = Chown([dest EXCEPT !.content = SubSeq(staged.content, 1, n)], chownOk)
         /\ werr' = (n < Len(staged.content))
         /\ IF werr' THEN SyncReturn("WriteError", staged)
            ELSE AfterCommit(staged)
    /\ UNCHANGED << cfgVars, FileMode, Store, backend, ok, pre, cand, had, again >>

\* mutant of Reload: a failed reload puts the pre-cycle dest back
ReloadRollback ==
    /\ pc = "reload"
    /\ \E pass \in BOOLEAN :
         /\ trace' = Append(trace, IF pass THEN "reload" ELSE "reloadFailed")
         /\ dest' = IF pass THEN dest ELSE pre
         /\ SyncReturn(IF pass THEN "nil" ELSE "ReloadError", staged)
    /\ UNCHANGED << cfgVars, FileMode, Store, backend, ok, werr, pre, cand, had, again >>

\* reload: the reload command, whose failure sync returns
Reload ==
    /\ pc = "reload"
    /\ \E pass \in BOOLEAN :
         /\ trace' = Append(trace, IF pass THEN "reload" ELSE "reloadFailed")
         /\ SyncReturn(IF pass THEN "nil" ELSE "ReloadError", staged)
    /\ UNCHANGED << cfgVars, FileMode, Store, backend, dest, ok, werr, pre, cand, had, again >>

-----------------------------------------------------------------------------
(* The world outside process().                                            *)

\* The history variables describe the cycle that has just returned; they
\* are cleared once the world outside moves on.
Forget ==
    /\ staged' = NoFile
    /\ ret' = "none"
    /\ ok' = FALSE
    /\ werr' = FALSE
    /\ pre' = dest'
    /\ cand' = << >>
    /\ trace' = << >>
    /\ had' = EmptyStore
    /\ quiet' = FALSE
    /\ again' = FALSE

\* the backend's data changes between two cycles
BackendUpdate(K) ==
    /\ pc = "idle"
    /\ \E m \in Mappings(K) : m # backend /\ backend' = m
    /\ dest' = dest
    /\ Forget
    /\ UNCHANGED << cfgVars, FileMode, Store, pc >>

\* somebody else replaces or removes dest between two cycles
OutsideChange ==
    /\ pc = "idle"
    /\ \E f \in OutsideDests : f # dest /\ dest' = f
    /\ Forget
    /\ UNCHANGED << cfgVars, FileMode, Store, backend, pc >>

Next ==
    \/ SetFileMode
    \/ SetVars
    \/ CreateStageFile
    \/ SyncDiff
    \/ Check
    \/ Rename
    \/ WriteOpen
    \/ WriteData
    \/ Reload
    \/ BackendUpdate(PipelineKeys)
    \/ OutsideChange

Spec == Init /\ [][Next]_vars

NextStore ==
    \/ CallSetVars
    \/ BackendUpdate(StoreKeys)

SpecStore == InitStore /\ [][NextStore]_vars

\* the call of NewTemplateResource: the resource it returns, if any, has
\* the prefix and the Store the constructor gave it
CallNewTemplateResource ==
    /\ ~tr.done
    /\ tr' = Made(tr.args)
    /\ Prefix' = IF tr'.res.nil THEN Prefix ELSE tr'.res.Prefix
    /\ Store' = tr'.res.Store
    /\ UNCHANGED << Mode, CheckCmd, ReloadCmd, noop, syncOnly, keepStageFile, FileMode,
                    backend, dest, staged, pc, ret, ok, werr, pre, cand, trace, had,
                    quiet, again, two >>

NextNew == CallNewTemplateResource

SpecNew == InitNew /\ [][NextNew]_vars

-----------------------------------------------------------------------------
(* The cycles of two resources, their steps interleaved.  Each step is one *)
(* method of the resource or one operation of it on the filesystem.        *)

\* the two-resource model: both resources new, either destination absent or
\* an older file
InitTwo ==
    /\ Mode = << >>
    /\ Prefix = << "/" >>
    /\ noop = FALSE
    /\ syncOnly = FALSE
    /\ keepStageFile = FALSE
    /\ CheckCmd = ""
    /\ ReloadCmd = ""
    /\ backend \in Mappings(TwoKeys)
    /\ dest = NoFile
    /\ tr = Made(ArgsOf(Prefix))
    /\ \E D \in SUBSET Resources :
         two = [fs |-> [n \in { DestOf(i) : i \in D } |->
                            File(<< "o", "l", "d" >>, 416, ProcessUid, ProcessGid)],
                rs |-> [i \in Resources |-> FreshResource]]
    /\ Fresh

\* resource i becomes r and the filesystem f
TwoStep(i, r, f) ==
    /\ two' = [fs |-> f, rs |-> [two.rs EXCEPT ![i] = r]]
    /\ UNCHANGED << Mode, Prefix, CheckCmd, ReloadCmd, noop, syncOnly, keepStageFile, tr,
                    FileMode, Store, backend, dest, staged, pc, ret, ok, werr, pre, cand,
                    trace, had, quiet, again >>

\* setFileMode of resource i (no mode configured)
TwoSetFileMode(i) ==
    LET r == two.rs[i]
        d == FileAt(two.fs, DestOf(i))
    IN  /\ r.pc = "idle"
        /\ TwoStep(i, [r EXCEPT !.pc = "setVars", !.ret = "running", !.stage = << >>,
                                !.FileMode = IF IsFileExist(d) THEN d.mode
                                             ELSE DefaultFileMode],
                   two.fs)

\* setVars of resource i
TwoSetVars(i) ==
    LET r == two.rs[i] IN
    /\ r.pc = "setVars"
    /\ \E ord \in Orders(DOMAIN GetValues(i)) :
         TwoStep(i, [r EXCEPT !.pc = "TempFile",
                              !.Store = Refreshed(r.Store, GetValues(i), ord, PrefixOf(i))],
                 two.fs)

\* CreateStageFile of resource i, afero.TempFile: a new, empty file under a
\* name that no file has (O_EXCL)
TwoTempFile(i) ==
    LET r == two.rs[i] IN
    /\ r.pc = "TempFile"
    /\ IF \E d \in Suffixes : TempName(i, d) \notin DOMAIN two.fs
       THEN \E d \in Suffixes :
              /\ TempName(i, d) \notin DOMAIN two.fs
              /\ TwoStep(i, [r EXCEPT !.pc = "Execute", !.stage = TempName(i, d)],
                         WithFile(two.fs, TempName(i, d),
                                  File(<< >>, TempFileMode, ProcessUid, ProcessGid)))
       ELSE TwoStep(i, [r EXCEPT !.pc = "idle", !.ret = "TempFileError"], two.fs)

\* CreateStageFile of resource i, Execute, Chmod and Chown on its temporary
\* file, which is removed if Execute fails
TwoExecute(i) ==
    LET r == two.rs[i] IN
    /\ r.pc = "Execute"
    /\ IF RenderFails(r.Store)
       THEN TwoStep(i, [r EXCEPT !.pc = "idle", !.ret = "TemplateRenderError"],
                    WithoutFile(two.fs, r.stage))
       ELSE TwoStep(i, [r EXCEPT !.pc = "sync"],
                    IF r.stage \in DOMAIN two.fs
                    THEN WithFile(two.fs, r.stage,
                                  File(Render(r.Store), r.FileMode, Uid, Gid))
                    ELSE two.fs)

\* sync of resource i up to the rename: the diff of its staged file and its
\* dest (if the staged file cannot be read the error is logged and the
\* answer used all the same)
TwoSyncDiff(i) ==
    LET r == two.rs[i]
        d == FileAt(two.fs, DestOf(i))
        readable == ~IsFileExist(d) \/ r.stage \in DOMAIN two.fs
    IN  /\ r.pc = "sync"
        /\ \E answer \in BOOLEAN :
             /\ readable => answer
             /\ IF (IF readable THEN IsConfigChanged(FileAt(two.fs, r.stage), d) ELSE answer)
                THEN TwoStep(i, [r EXCEPT !.pc = "rename"], two.fs)
                ELSE TwoStep(i, [r EXCEPT !.pc = "remove", !.ret = "nil"], two.fs)

\* sync of resource i: fs.Rename(staged, t.Dest)
TwoRename(i) ==
    LET r == two.rs[i] IN
    /\ r.pc = "rename"
    /\ IF r.stage \in DOMAIN two.fs
       THEN TwoStep(i, [r EXCEPT !.pc = "remove", !.ret = "nil"],
                    WithFile(WithoutFile(two.fs, r.stage), DestOf(i),
                             Renamed(FileAt(two.fs, DestOf(i)), two.fs[r.stage], "ok")))
       ELSE TwoStep(i, [r EXCEPT !.pc = "remove", !.ret = "RenameError"], two.fs)

\* sync of resource i returns: the deferred fs.Remove(staged), by name
TwoRemove(i) ==
    LET r == two.rs[i] IN
    /\ r.pc = "remove"
    /\ TwoStep(i, [r EXCEPT !.pc = "idle"], WithoutFile(two.fs, r.stage))

NextTwo ==
    \E i \in Resources :
        \/ TwoSetFileMode(i)
        \/ TwoSetVars(i)
        \/ TwoTempFile(i)
        \/ TwoExecute(i)
        \/ TwoSyncDiff(i)
        \/ TwoRename(i)
        \/ TwoRemove(i)

SpecTwo == InitTwo /\ [][NextTwo]_vars

-----------------------------------------------------------------------------
(* Properties.                                                             *)

InTrace(e) == \E i \in DOMAIN trace : trace[i] = e

\* two files with the same bytes, or both absent
SameContent(f, g) == f.exists = g.exists /\ f.content = g.content

IsPrefixOf(p, s) == Len(p) <= Len(s) /\ SubSeq(s, 1, Len(p)) = p

\* dest holds exactly the bytes rendered in this cycle
HoldsCandidate == InTrace("stage") /\ dest.exists /\ dest.content = cand

\* process() has returned from the cycle the history variables describe
Returned == pc = "idle" /\ ret \notin { "none", "running" }

\* the events in which a command runs or dest is renamed or written
CommandEvents == { "check", "checkFailed", "reload", "reloadFailed" }
CommitEvents  == { "rename", "renameBusy", "renameError", "open", "openError", "write" }

\* C1 as stated: in every state of a cycle, on the rename path and on the
\* busy-resource fallback alike, dest's content is its pre-cycle content or
\* the complete candidate.
C1_AlwaysWhole == SameContent(dest, pre) \/ HoldsCandidate

\* C1 amended: dest's content is its pre-cycle content or the complete
\* candidate in every state, except on the busy-resource fallback: once the
\* fallback's truncating open has run, dest may hold a proper prefix of the
\* candidate (empty included), and keeps it if the write fails.
C1_WholeUnlessFallback ==
    \/ SameContent(dest, pre)
    \/ HoldsCandidate
    \/ /\ InTrace("open")
       /\ dest.exists
       /\ IsPrefixOf(dest.content, cand)

\* a rename has put a candidate with new content in place of an existing dest
C1_Witness ==
    /\ InTrace("rename")
    /\ pre.exists
    /\ HoldsCandidate
    /\ ~SameContent(dest, pre)

\* the steps before the replace step at which process() can fail
PreReplaceErrors ==
    { "StatError", "ParseError", "BackendError", "MissingTemplate",
      "TemplateSyntaxError", "TempFileError", "TemplateRenderError",
      "Config check failed" }

\* C2: when process() has failed at a step before the replace step, dest has
\* its pre-cycle content, and does not exist if it did not exist before.
C2_FailureLeavesDest ==
    (pc = "idle" /\ ret \in PreReplaceErrors) => SameContent(dest, pre)

\* the check command has failed in a cycle whose candidate differs from an
\* existing dest
C2_Witness ==
    /\ pc = "idle"
    /\ ret = "Config check failed"
    /\ pre.exists
    /\ cand # pre.content

\* C3: once the check command has failed, process() has returned an error,
\* and no rename or write of dest was attempted, dest is as it was and the
\* reload command has not run.
C3_CheckGate ==
    InTrace("checkFailed") =>
        /\ pc = "idle"
        /\ ret \notin { "nil", "none", "running" }
        /\ dest = pre
        /\ \A e \in CommitEvents \cup { "reload", "reloadFailed" } : ~InTrace(e)

\* the check command has failed for a differing candidate, with a reload
\* command configured and neither noop nor sync-only set
C3_Witness ==
    /\ InTrace("checkFailed")
    /\ ok
    /\ ~noop /\ ~syncOnly
    /\ CheckCmd # "" /\ ReloadCmd # ""
    /\ cand # pre.content

\* C4, its second run, as stated: a cycle that directly follows a successful
\* cycle which left dest equal to its candidate, with the same answer of the
\* backend and the same resource, and whose diff reads both files, performs
\* no rename or write of dest and runs neither the check nor the reload
\* command.
C4_SecondRunQuiet ==
    (again /\ ~InTrace("diffError")) =>
        \A e \in CommitEvents \cup CommandEvents : ~InTrace(e)

\* C5: with the noop flag set, dest (content, mode, owner, group, existence)
\* stays as it was when the cycle started, and neither a command nor a
\* rename or write of dest happens, whatever the diff answered.
C5_NoopFrame ==
    noop =>
        /\ dest = pre
        /\ \A e \in CommitEvents \cup CommandEvents : ~InTrace(e)

\* a noop cycle has returned after its diff found the candidate to differ
C5_Witness ==
    /\ noop
    /\ Returned
    /\ InTrace("diff")
    /\ ok
    /\ ~SameContent(dest, [exists |-> TRUE, content |-> cand])

\* the diff of this cycle has run
DiffRan == InTrace("diff") \/ InTrace("diffError")

\* C6 as stated: with noop set and a candidate that differs from dest, what
\* process() returns differs from what it returns for an unchanged candidate
\* (nil).
C6_ReportsChanged ==
    (noop /\ Returned /\ InTrace("diff") /\ ok) => ret # "nil"

\* C6 amended: with noop set, a cycle that reaches the diff returns nil
\* whether or not the candidate differs from dest; the result does not
\* tell the two cases apart.
C6_NoopReturnsNil ==
    (noop /\ Returned /\ DiffRan) => ret = "nil"

\* a noop cycle has returned for a candidate that differs from an existing dest
C6_Witness ==
    /\ noop
    /\ Returned
    /\ InTrace("diff")
    /\ ok
    /\ dest.exists
    /\ dest.content # cand

\* a successful setVars has just run (inside process(), or on its own)
SetVarsDone ==
    \/ pc = "CreateStageFile"
    \/ pc = "idle" /\ ret = "nil" /\ trace = << "setVars" >>

\* the pairs of the backend's answer that normalise to the store key nk
Sources(nk) == { j \in DOMAIN backend : NormKey(j, Prefix) = nk }

\* C7 as stated: after a successful setVars, every returned pair (k, v) with
\* k beginning with the prefix is exposed as v under the normalised key, and
\* for a non-root prefix the store has no entry under k itself.
C7_PrefixStripped ==
    SetVarsDone =>
        \A k \in DOMAIN backend :
            HasPrefix(k, Prefix) =>
                /\ NormKey(k, Prefix) \in DOMAIN Store
                /\ Store[NormKey(k, Prefix)] = backend[k]
                /\ Prefix # << "/" >> => k \notin DOMAIN Store

\* C7 amended: after a successful setVars, every returned pair (k, v) with k
\* beginning with the prefix has an entry under its normalised key, holding
\* the value of one of the returned pairs that normalise to that key (v when
\* k is the only one), and for a non-root prefix the store has an entry
\* under k itself only when k is the normalised key of a returned pair.
C7_PrefixNormalised ==
    SetVarsDone =>
        \A k \in DOMAIN backend :
            HasPrefix(k, Prefix) =>
                /\ NormKey(k, Prefix) \in DOMAIN Store
                /\ Store[NormKey(k, Prefix)] \in
                       { backend[j] : j \in Sources(NormKey(k, Prefix)) }
                /\ (Prefix # << "/" >> /\ k \in DOMAIN Store) => Sources(k) # { }

\* prefix /a/ and the backend pair /a/f: the store has /f with that value
\* and no /a/f
C7_Witness ==
    /\ SetVarsDone
    /\ Prefix = << "/", "a", "/" >>
    /\ << "/", "a", "/", "f" >> \in DOMAIN backend
    /\ << "/", "f" >> \in DOMAIN Store
    /\ Store[<< "/", "f" >>] = backend[<< "/", "a", "/", "f" >>]
    /\ << "/", "a", "/", "f" >> \notin DOMAIN Store

\* C8: after a successful setVars the keys of the store are exactly the
\* normalised keys of the answer of that call.
C8_ExactKeys ==
    SetVarsDone =>
        DOMAIN Store = { NormKey(k, Prefix) : k \in DOMAIN backend }

\* a successful setVars has dropped a key the store held before it
C8_Witness ==
    /\ SetVarsDone
    /\ \E k \in DOMAIN had : k \notin DOMAIN Store
    /\ Store # EmptyStore

\* C9: when GetValues has failed, process() has returned that error, the
\* store is as setVars found it, no candidate was rendered or created, and
\* dest is as it was.
C9_BackendFailure ==
    ret = "BackendError" =>
        /\ pc = "idle"
        /\ Store = had
        /\ dest = pre
        /\ ~staged.exists
        /\ cand = << >>
        /\ ~InTrace("stage")

\* GetValues has failed in a cycle that found an earlier cycle's pairs in
\* the store, which the backend no longer holds
C9_Witness ==
    /\ ret = "BackendError"
    /\ InTrace("setFileMode")
    /\ Store # EmptyStore
    /\ DOMAIN backend = { }

\* C10 as stated: with no mode configured, the candidate has the mode dest
\* had at the start of the cycle (0644 if dest did not exist), and so has
\* dest after a commit.
C10_ModeInherited ==
    Mode = << >> =>
        LET M == IF pre.exists THEN pre.mode ELSE DefaultFileMode IN
        /\ (InTrace("stage") /\ staged.exists) => staged.mode = M
        /\ (InTrace("rename") \/ (InTrace("write") /\ ~werr)) => dest.mode = M

C11_WitnessChanged ==
    /\ InTrace("diff")
    /\ ok
    /\ pre.exists
    /\ pre.content # cand

\* C12: once the reload command has failed, process() has returned that
\* error and dest holds the candidate committed in this cycle, not its
\* pre-cycle content.
C12_ReloadNoRollback ==
    InTrace("reloadFailed") =>
        /\ pc = "idle"
        /\ ret = "ReloadError"
        /\ HoldsCandidate

\* the reload command has failed after a commit that changed an existing dest
C12_Witness ==
    /\ InTrace("reloadFailed")
    /\ ret = "ReloadError"
    /\ pre.exists
    /\ pre.content # cand
    /\ dest.content = cand

\* C13: with noop off and no check or reload command, when a cycle whose
\* steps all succeeded has returned nil, dest exists and its content is the
\* template's text followed by the value the Staging Store holds under the
\* template's key, which is a value the backend returned for a key that
\* normalises to it; whether dest was absent or different before.
C13_EndToEnd ==
    ( /\ Returned /\ ret = "nil"
      /\ InTrace("diff")
      /\ ~noop /\ CheckCmd = "" /\ ReloadCmd = "" )
    => /\ dest.exists
       /\ TemplateKey \in DOMAIN Store
       /\ dest.content = TemplateText \o Store[TemplateKey]
       /\ Store[TemplateKey] \in { backend[j] : j \in Sources(TemplateKey) }

\* the backend returns /a/f = x alone, dest existed with other content, and
\* the cycle has returned nil leaving f=x in dest
C13_Witness ==
    /\ Returned /\ ret = "nil"
    /\ InTrace("diff")
    /\ ~noop /\ CheckCmd = "" /\ ReloadCmd = ""
    /\ backend = ( << "/", "a", "/", "f" >> :> << "x" >> )
    /\ pre.exists /\ pre.content = << "o", "l", "d" >>
    /\ dest.content = << "f", "=", "x" >>

\* the same with no dest before the cycle
C13_WitnessAbsent ==
    /\ Returned /\ ret = "nil"
    /\ InTrace("diff")
    /\ ~noop /\ CheckCmd = "" /\ ReloadCmd = ""
    /\ backend = ( << "/", "a", "/", "f" >> :> << "x" >> )
    /\ ~pre.exists
    /\ dest.content = << "f", "=", "x" >>

\* the call of NewTemplateResource must fail on these arguments
MustFail(a) ==
    \/ ~a.StoreClient
    \/ ~a.decodeOk
    \/ a.Src = << >>
    \/ a.Uid = -1 /\ a.Owner # "" /\ a.Owner # "app"
    \/ a.Gid = -1 /\ a.Group # "" /\ a.Group # "app"

\* C14: NewTemplateResource either fails and returns no resource, exactly
\* when the store client is missing, the descriptor does not decode, src is
\* empty or a needed owner or group name does not resolve, or it returns nil
\* as error and a resource with a non-empty src, a prefix beginning with "/"
\* ("/" itself when neither the descriptor nor the configuration sets one),
\* uid and gid other than -1, and an empty Store.
C14_NewOrNothing ==
    tr.done =>
        LET a == tr.args
            r == tr.res
        IN  IF MustFail(a)
            THEN r.nil /\ r.err # "nil"
            ELSE /\ ~r.nil /\ r.err = "nil"
                 /\ r.Src # << >>
                 /\ HasPrefix(r.Prefix, << "/" >>)
                 /\ (a.Prefix = << >> /\ a.configPrefix = << >>) => r.Prefix = << "/" >>
                 /\ r.Uid # -1 /\ r.Gid # -1
                 /\ r.Store = EmptyStore
                 /\ Store = EmptyStore /\ Prefix = r.Prefix

\* a descriptor with no prefix, uid or gid and the owner "app" has given a
\* resource with prefix "/" and the owner's uid
C14_Witness ==
    /\ tr.done
    /\ ~tr.res.nil
    /\ tr.args.Prefix = << >> /\ tr.args.configPrefix = << >>
    /\ tr.args.Uid = -1 /\ tr.args.Owner = "app"
    /\ tr.args.Gid = -1 /\ tr.args.Group = ""
    /\ tr.res.Prefix = << "/" >>
    /\ tr.res.Uid = 1000
    /\ tr.res.Gid = ProcessGid

\* a descriptor with an empty src has given no resource
C14_WitnessEmptySrc ==
    /\ tr.done
    /\ tr.args.StoreClient /\ tr.args.decodeOk
    /\ tr.args.Src = << >>
    /\ tr.res.nil
    /\ tr.res.err = "empty src template"

\* C15: the check command runs in a cycle only if the diff found the
\* candidate to differ, noop and sync-only are off and a check command is
\* configured, and likewise the reload command; a cycle whose diff found the
\* candidate unchanged (as it does when it reads two files of equal content)
\* has returned nil with no command run, no rename or write of dest, and
\* dest as it was.
C15_CommandsOnlyIfChanged ==
    /\ (InTrace("check") \/ InTrace("checkFailed"))
          => (ok /\ ~noop /\ ~syncOnly /\ CheckCmd # "")
    /\ (InTrace("reload") \/ InTrace("reloadFailed"))
          => (ok /\ ~noop /\ ~syncOnly /\ ReloadCmd # "")
    /\ (InTrace("diff") /\ pre.exists /\ pre.content = cand) => ~ok
    /\ (DiffRan /\ ~ok) =>
          /\ pc = "idle" /\ ret = "nil"
          /\ dest = pre
          /\ \A e \in CommitEvents \cup CommandEvents : ~InTrace(e)

\* a cycle with both commands configured and noop and sync-only off has
\* returned after its diff found the candidate equal to dest
C15_Witness ==
    /\ Returned
    /\ InTrace("diff")
    /\ ~ok
    /\ pre.exists /\ pre.content = cand
    /\ ~noop /\ ~syncOnly
    /\ CheckCmd # "" /\ ReloadCmd # ""

\* both commands have run in one cycle
C15_WitnessBoth ==
    /\ InTrace("check")
    /\ InTrace("reload")
    /\ ok

\* the step of the cycle an event of the trace belongs to
Rank(e) ==
    CASE e = "setFileMode" -> 1
      [] e = "setVars" -> 2
      [] e \in { "stage", "chmodFailed", "chownFailed" } -> 3
      [] e \in { "diff", "diffError" } -> 4
      [] e \in { "check", "checkFailed" } -> 5
      [] e \in { "rename", "renameBusy", "read", "renameError", "open", "openError",
                 "write", "chown", "chownError" } -> 6
      [] e \in { "reload", "reloadFailed" } -> 7

\* the events with which a step begins, one for every run of the step
StepEvents ==
    { "setFileMode", "setVars", "stage", "diff", "diffError", "check", "checkFailed",
      "rename", "renameBusy", "renameError", "reload", "reloadFailed" }

\* the steps of the trace run in the order resolve-mode, fetch, stage, diff,
\* check, commit, reload, each at most once; a commit follows a passed check
\* when one is configured; a reload follows a replacement that succeeded
StepsInOrder ==
    /\ \A i, j \in DOMAIN trace : i < j => Rank(trace[i]) <= Rank(trace[j])
    /\ \A i, j \in DOMAIN trace :
          (i < j /\ trace[i] \in StepEvents /\ trace[j] \in StepEvents)
             => Rank(trace[i]) < Rank(trace[j])
    /\ ((\E e \in CommitEvents : InTrace(e)) /\ ~syncOnly /\ CheckCmd # "")
          => InTrace("check")
    /\ (InTrace("reload") \/ InTrace("reloadFailed"))
          => /\ InTrace("rename") \/ (InTrace("write") /\ ~werr)
             /\ HoldsCandidate

\* no step runs after an event of F, and none after a failed write
NothingAfter(F) ==
    /\ \A i, j \in DOMAIN trace :
          (i < j /\ trace[i] \in F) => Rank(trace[j]) = Rank(trace[i])
    /\ (InTrace("write") /\ werr) => ~(InTrace("reload") \/ InTrace("reloadFailed"))
    /\ (ret \notin { "none", "running", "nil" }) => pc = "idle"

\* the failures process() returns
ReturnedFailures == { "checkFailed", "renameError", "openError", "reloadFailed" }

\* the failures process() does not return: of Chmod and Chown on the staged
\* file, of the diff, of Chown on dest
IgnoredFailures == { "chmodFailed", "chownFailed", "diffError", "chownError" }

\* C16 as stated: the steps of a cycle run in order, each at most once, the
\* check before any rename or write of dest, the reload only after dest was
\* replaced successfully, and after a failure at any step no later step runs.
C16_OrderAndStop ==
    /\ StepsInOrder
    /\ NothingAfter(ReturnedFailures \cup IgnoredFailures)

\* the part of C16 the code keeps: the order of the steps, and no later step
\* after a failure that process() returns
C16_OrderAndStopOnReturned ==
    /\ StepsInOrder
    /\ NothingAfter(ReturnedFailures)

\* a cycle has run all seven steps
C16_Witness ==
    /\ trace = << "setFileMode", "setVars", "stage", "diff", "check", "rename", "reload" >>
    /\ Returned

\* the cycle has staged a candidate
Staged == InTrace("diff") \/ InTrace("diffError")

\* C17: when process() has returned and keepStageFile is not set, the
\* temporary file of the cycle does not exist, however the cycle ended; when
\* keepStageFile is set and the cycle staged a candidate that no rename put
\* in dest's place, that file still exists and holds the candidate.
C17_StageFileCleanup ==
    Returned =>
        IF ~keepStageFile
        THEN ~staged.exists
        ELSE (Staged /\ ~InTrace("rename")) => (staged.exists /\ staged.content = cand)

\* a cycle without keepStageFile has ended with a failed fallback write
C17_Witness ==
    /\ Returned
    /\ ~keepStageFile
    /\ ret = "WriteError"
    /\ InTrace("write")
    /\ ~staged.exists

\* a cycle with keepStageFile has ended with a failed check, its candidate kept
C17_WitnessKept ==
    /\ Returned
    /\ keepStageFile
    /\ InTrace("checkFailed")
    /\ staged.exists /\ staged.content = cand

ReloadRan == InTrace("reload") \/ InTrace("reloadFailed")

\* the rename has failed with another error than "device or resource busy":
\* process() has returned that error, dest is as it was, no reload has run
OtherRenameErrorStops ==
    InTrace("renameError") =>
        /\ pc = "idle" /\ ret = "RenameError"
        /\ dest = pre
        /\ ~ReloadRan

\* C18 as stated: when the rename has failed with "device or resource busy"
\* and the cycle has ended, dest's content is the candidate's, the reload
\* command has run if one applies, and process() has returned nil (or the
\* error of the reload command); when the rename has failed otherwise,
\* process() has returned that error, dest is unmodified and no reload ran.
C18_FallbackSucceeds ==
    /\ (InTrace("renameBusy") /\ Returned) =>
          /\ dest.content = cand
          /\ (~syncOnly /\ ReloadCmd # "") => ReloadRan
          /\ ret \in { "nil", "ReloadError" }
    /\ OtherRenameErrorStops

\* C18 amended: after a rename that failed with "device or resource busy"
\* the cycle reads the candidate and overwrites dest.  If the read fails,
\* process() returns that error with dest as it was; if the write fails, it
\* returns that error with dest holding its old content or a prefix of the
\* candidate; in both cases no reload runs.  Otherwise dest's content
\* is the candidate's, the reload command runs if one applies, and process()
\* returns nil unless the reload fails.  Any other failure of the rename is
\* returned, with dest unmodified and no reload.
C18_FallbackUnlessItFails ==
    /\ (InTrace("renameBusy") /\ Returned) =>
          /\ InTrace("read")
          /\ ret \in { "nil", "ReloadError", "ReadError", "WriteError" }
          /\ ret = "ReadError" => (dest = pre /\ ~InTrace("open") /\ ~ReloadRan)
          /\ ret = "WriteError" =>
                /\ werr
                /\ ~ReloadRan
                /\ dest.exists
                /\ dest.content = pre.content \/ IsPrefixOf(dest.content, cand)
          /\ ret \in { "nil", "ReloadError" } =>
                /\ InTrace("write") /\ ~werr
                /\ dest.content = cand
                /\ (~syncOnly /\ ReloadCmd # "") <=> ReloadRan
                /\ ret = "ReloadError" <=> InTrace("reloadFailed")
    /\ OtherRenameErrorStops

\* the fallback has overwritten a busy dest and the reload has run
C18_Witness ==
    /\ InTrace("renameBusy")
    /\ InTrace("write")
    /\ InTrace("reload")
    /\ ret = "nil"
    /\ pre.content # cand
    /\ dest.content = cand

\* a rename has failed with another error for a differing candidate
C18_WitnessOther ==
    /\ InTrace("renameError")
    /\ ret = "RenameError"
    /\ ReloadCmd # "" /\ ~syncOnly

\* the filesystem failures of staging and diffing: Chmod or Chown on the
\* candidate, reading the candidate or dest for the diff
StagingFailures == { "chmodFailed", "chownFailed", "diffError" }

\* C19 as stated: once Chmod or Chown on the candidate or the diff's reading
\* of the files has failed, the cycle is over, process() has returned an
\* error and dest has not been replaced.
C19_StagingFailureAborts ==
    (\E e \in StagingFailures : InTrace(e)) =>
        /\ pc = "idle"
        /\ ret \notin { "none", "running", "nil" }
        /\ dest = pre
        /\ \A e \in CommitEvents : ~InTrace(e)

\* what the code does instead: after a failed Chown on the candidate the
\* cycle has renamed the candidate over dest and returned nil
C19_Ignored ==
    /\ InTrace("chownFailed")
    /\ InTrace("rename")
    /\ Returned /\ ret = "nil"
    /\ dest.uid # Uid

\* the Store resource i has after a setVars of a cycle run alone
AloneStore(i) ==
    Refreshed(EmptyStore, GetValues(i),
              CHOOSE o \in Orders(DOMAIN GetValues(i)) : TRUE, PrefixOf(i))

\* the names under which the resources hold a temporary file
StageNames ==
    { two.rs[i].stage : i \in { j \in Resources :
                                  two.rs[j].pc \in { "Execute", "sync", "rename", "remove" } } }

\* C20: with the steps of the two resources' cycles interleaved in any way,
\* each resource's Store, candidate file, dest and result are those of its
\* cycle run alone: the Store holds its own prefix's pairs, its temporary
\* file exists from TempFile to the rename and holds its own candidate, its
\* dest holds its older content or its own candidate and holds the
\* candidate once process() has returned nil, process() fails only where it
\* fails alone (the template's key is missing), and the directory holds no
\* file but the two dests and the temporary files of the running cycles.
C20_Independent ==
    /\ \A i \in Resources :
         LET r == two.rs[i]
             S == AloneStore(i)
             d == FileAt(two.fs, DestOf(i))
         IN  /\ r.Store \in { EmptyStore, S }
             /\ r.pc \in { "TempFile", "Execute", "sync", "rename", "remove" } => r.Store = S
             /\ r.pc = "Execute" =>
                   FileAt(two.fs, r.stage) = File(<< >>, TempFileMode, ProcessUid, ProcessGid)
             /\ r.pc \in { "sync", "rename" } =>
                   FileAt(two.fs, r.stage) = File(Render(S), r.FileMode, Uid, Gid)
             /\ d.exists =>
                   \/ d.content = << "o", "l", "d" >>
                   \/ ~RenderFails(S) /\ d.content = Render(S)
             /\ (r.pc \in { "idle", "remove" } /\ r.ret # "none") =>
                   IF RenderFails(S)
                   THEN r.ret = "TemplateRenderError"
                   ELSE r.ret = "nil" /\ d.exists /\ d.content = Render(S)
    /\ DOMAIN two.fs \subseteq { DestOf(i) : i \in Resources } \cup StageNames

\* both cycles are under way: resource 1 has renamed its candidate f=x onto
\* its dest and not yet removed its temporary name, resource 2 holds its
\* candidate f=y and is about to rename it
C20_Witness ==
    /\ two.rs[1].pc = "remove" /\ two.rs[1].ret = "nil"
    /\ two.rs[2].pc = "rename"
    /\ FileAt(two.fs, DestOf(1)).content = << "f", "=", "x" >>
    /\ FileAt(two.fs, two.rs[2].stage).content = << "f", "=", "y" >>
    /\ ~FileAt(two.fs, DestOf(2)).exists

\* dest has been replaced in this cycle, by the rename or by a complete
\* fallback write
Committed == InTrace("rename") \/ (InTrace("write") /\ ~werr)

\* C21 as stated: once a cycle has committed, by the rename or by the
\* fallback write onto an existing dest, dest's mode is the mode setFileMode
\* resolved for the cycle and its owner and group are the configured uid
\* and gid.
C21_CommittedModeOwner ==
    Committed =>
        /\ dest.mode = FileMode
        /\ dest.uid = Uid
        /\ dest.gid = Gid

\* what the code does on the fallback path: with Chmod and every Chown
\* succeeding, a complete fallback write has left dest with the mode it had,
\* not the configured one
C21_FallbackKeepsOldMode ==
    /\ InTrace("write") /\ ~werr
    /\ \A e \in IgnoredFailures : ~InTrace(e)
    /\ Mode # << >>
    /\ dest.mode = pre.mode
    /\ dest.mode # FileMode

\* the part of C21 the code keeps: a commit by rename, after a Chmod and a
\* Chown of the candidate that succeeded, leaves dest with the resolved mode
\* and the configured owner and group; the fallback write leaves the
\* configured owner and group if its Chown succeeded
C21_RenameCarriesModeOwner ==
    /\ (InTrace("rename") /\ ~InTrace("chmodFailed")) => dest.mode = FileMode
    /\ (InTrace("rename") /\ ~InTrace("chownFailed")) => (dest.uid = Uid /\ dest.gid = Gid)
    /\ (InTrace("write") /\ InTrace("chown")) => (dest.uid = Uid /\ dest.gid = Gid)

\* the pairs of the backend's answer normalise to different store keys
NoCollision ==
    \A j, k \in DOMAIN backend : NormKey(j, Prefix) = NormKey(k, Prefix) => j = k

\* C22 as stated: a successful setVars that follows a successful setVars
\* with the same answer of the backend leaves the same Store, also when two
\* returned keys normalise to one store key.
C22_SameMappingSameStore ==
    [][ ( /\ ret = "nil" /\ trace = << "setVars" >>
          /\ ret' = "nil" /\ trace' = << "setVars" >>
          /\ backend' = backend )
        => Store' = Store ]_vars

\* the part of C22 the code keeps: the same, for answers whose keys
\* normalise to different store keys
C22_SameStoreWithoutCollision ==
    [][ ( /\ ret = "nil" /\ trace = << "setVars" >>
          /\ ret' = "nil" /\ trace' = << "setVars" >>
          /\ backend' = backend
          /\ NoCollision )
        => Store' = Store ]_vars

\* a successful setVars on an answer in which /a/f and /a//f, with
\* different values, both normalise to /f
C22_Collision ==
    /\ SetVarsDone
    /\ Prefix = << "/", "a" >>
    /\ DOMAIN backend = { << "/", "a", "/", "f" >>, << "/", "a", "/", "/", "f" >> }
    /\ backend[<< "/", "a", "/", "f" >>] # backend[<< "/", "a", "/", "/", "f" >>]
    /\ Store[<< "/", "f" >>] = backend[<< "/", "a", "/", "/", "f" >>]

====
